---- MODULE Spec2Model ----
(***************************************************************************)
(* A model of mapboxgl/utils.py: the GeoJSON converter (row_to_geojson,    *)
(* df_to_geojson) and the stop generators (scale_between,                  *)
(* create_radius_stops, create_weight_stops, create_color_stops).          *)
(*                                                                         *)
(* Numbers.  The values scale_between computes are rounded to 2 decimal    *)
(* places; the model holds every radius / weight value as an integer       *)
(* number of hundredths (2.0 is 200).  Break values are plain integers.    *)
(* Coordinates are integers in thousandths of a degree (1.234 is 1234).    *)
(* The inputs are integers, for which the float arithmetic of the source   *)
(* is exact up to the rounding step within the bounds used here.           *)
(***************************************************************************)
EXTENDS Integers, Sequences, FiniteSets, TLC

VARIABLES
    pc,         \* position of the running call: "idle", a step of df_to_geojson, "returned", "raised"
    call,       \* the call being made: [op, args]
    result,     \* what the call returned or raised
    df,         \* the caller's table (a sequence of rows), mutated in place by df_to_geojson
    df0,        \* the caller's table as it was before the call
    fs,         \* the resource at the destination path: [exists, lines]
    fs0,        \* the destination as it was before the call
    properties, \* local of df_to_geojson: the property list after defaulting
    features,   \* local of df_to_geojson: the list the rows are collected into
    idx,        \* local of df_to_geojson: the loop index of the running loop
    lookup      \* whether the call read the ramp registry

vars == <<pc, call, result, df, df0, fs, fs0, properties, features, idx, lookup>>

(***************************************************************************)
(* Bounds of the model.                                                    *)
(***************************************************************************)
MaxBreaks == 3
MaxStops == 5
MaxRadius == 2
MaxRows == 2
MaxProps == 2
MaxPrecision == 2

\* round(x, 2): two decimal places, so values are held in hundredths
Cents == 100

(***************************************************************************)
(* Helpers                                                                 *)
(***************************************************************************)
SeqsUpTo(S, n) == UNION {[1..k -> S] : k \in 0..n}

Range(s) == {s[i] : i \in 1..Len(s)}

\* Python's round() on an exactly represented value: nearest, ties to even.
\* num / den with den > 0, rounded to an integer.
RoundHalfEven(num, den) ==
    LET q == num \div den
        r == num - q * den
    IN  IF 2 * r < den THEN q
        ELSE IF 2 * r > den THEN q + 1
        ELSE IF q % 2 = 0 THEN q ELSE q + 1

\* What a call hands back: a value, or an exception with its message.
Returns(v) == [kind |-> "ok", value |-> v, msg |-> ""]
Raises(exc, m) == [kind |-> exc, value |-> <<>>, msg |-> m]

NoCall == [op |-> "none", args |-> <<>>]
NoResult == [kind |-> "none", value |-> <<>>, msg |-> ""]

(***************************************************************************)
(* Stop generator                                                          *)
(***************************************************************************)

\* Variant: the interval taken over numStops - 1 steps, so the last point is maxval.
ScalePointInclusive(minval, maxval, numStops, i) ==
    LET domain == maxval - minval
    IN  RoundHalfEven(Cents * (minval * (numStops - 1) + domain * i), numStops - 1)

\* Variant: the loop counting from 1, as in range(1, numStops + 1).
ScalePointFromOne(minval, maxval, numStops, i) ==
    LET domain == maxval - minval
    IN  RoundHalfEven(Cents * (minval * numStops + domain * (i + 1)), numStops)

\* scale.append(round(minval + interval * i, 2)), in hundredths:
\* minval + (domain / numStops) * i  =  (minval*numStops + domain*i) / numStops
ScalePoint(minval, maxval, numStops, i) ==
    LET domain == maxval - minval
    IN  RoundHalfEven(Cents * (minval * numStops + domain * i), numStops)

\* Variant: no check of the order of minval and maxval.
scale_between_unchecked(minval, maxval, numStops) ==
    IF numStops < 2
      THEN Returns(<<minval * Cents, maxval * Cents>>)
      ELSE Returns([k \in 1..numStops |-> ScalePoint(minval, maxval, numStops, k - 1)])

scale_between(minval, maxval, numStops) ==
    IF numStops < 2
      THEN Returns(<<minval * Cents, maxval * Cents>>)
    ELSE IF maxval < minval
      THEN Raises("ValueError", "")
    ELSE Returns([k \in 1..numStops |-> ScalePoint(minval, maxval, numStops, k - 1)])

\* Variant: zip(breaks, visual), which stops at the shorter of the two.
ZipShortest(breaks, visual) ==
    LET n == IF Len(breaks) < Len(visual) THEN Len(breaks) ELSE Len(visual)
    IN  Returns([i \in 1..n |-> <<breaks[i], visual[i]>>])

\* for i, b in enumerate(breaks): stops.append([b, visual[i]])
ZipStops(breaks, visual) ==
    IF \E i \in 1..Len(breaks) : i > Len(visual)
      THEN Raises("IndexError", "list index out of range")
      ELSE Returns([i \in 1..Len(breaks) |-> <<breaks[i], visual[i]>>])

create_radius_stops(breaks, min_radius, max_radius) ==
    LET num_breaks == Len(breaks)
        radius_breaks == scale_between(min_radius, max_radius, num_breaks)
    IN  IF radius_breaks.kind # "ok" THEN radius_breaks
        ELSE ZipStops(breaks, radius_breaks.value)

create_weight_stops(breaks) ==
    LET num_breaks == Len(breaks)
        weight_breaks == scale_between(0, 1, num_breaks)
    IN  IF weight_breaks.kind # "ok" THEN weight_breaks
        ELSE ZipStops(breaks, weight_breaks.value)

\* Color(color) of the colour library: accepts a color string or raises.
ColorStrings == {"#fff", "red", "notacolor"}
Color(color) == color \in {"#fff", "red"}

\* The colors argument: an explicit list, or anything else (a ramp name).
ExplicitColors(list) == [islist |-> TRUE, list |-> list, name |-> ""]
NamedColors(name) == [islist |-> FALSE, list |-> <<>>, name |-> name]

\* A ramp registry: ramp name -> break count -> list of colors.  "RdYlGn" is
\* well formed; "Short" and "Long" hold lists of the wrong length.
color_ramps ==
    [n \in {"RdYlGn", "Short", "Long"} |->
        CASE n = "RdYlGn" -> [k \in {2, 3} |-> [i \in 1..k |-> IF i % 2 = 1 THEN "#d73027" ELSE "#1a9850"]]
          [] n = "Short"  -> [k \in {2} |-> <<"#fee08b">>]
          [] n = "Long"   -> [k \in {1} |-> <<"#fee08b", "#d9ef8b">>]]

EmptyRamps == [n \in {} |-> <<>>]

Registries == {color_ramps, EmptyRamps}

RampNames == {"RdYlGn", "Short", "Long", "Nope"}

\* Variant: the colors validated before the lengths are compared.
create_color_stops_validating_first(breaks, colors, ramps) ==
    LET num_breaks == Len(breaks)
    IN  IF colors.islist
          THEN IF \E i \in 1..Len(colors.list) : ~Color(colors.list[i])
                 THEN [res |-> Raises("ValueError", "The color code {color} is in the wrong format"),
                       lookup |-> FALSE]
               ELSE IF Len(colors.list) = 0 \/ Len(colors.list) # num_breaks
                 THEN [res |-> Raises("ValueError", "custom color list must be of same length as breaks list"),
                       lookup |-> FALSE]
               ELSE [res |-> ZipStops(breaks, colors.list), lookup |-> FALSE]
        ELSE IF colors.name \notin DOMAIN ramps
          THEN [res |-> Raises("ValueError", "color does not exist in colorBrewer!"), lookup |-> TRUE]
        ELSE IF num_breaks \notin DOMAIN ramps[colors.name]
          THEN [res |-> Raises("ValueError", "Color ramp {} does not have a {} breaks"), lookup |-> TRUE]
        ELSE [res |-> ZipStops(breaks, ramps[colors.name][num_breaks]), lookup |-> TRUE]

\* The result of create_color_stops and whether it read the ramp registry.
create_color_stops(breaks, colors, ramps) ==
    LET num_breaks == Len(breaks)
    IN  IF colors.islist
          THEN IF Len(colors.list) = 0 \/ Len(colors.list) # num_breaks
                 THEN [res |-> Raises("ValueError", "custom color list must be of same length as breaks list"),
                       lookup |-> FALSE]
               ELSE IF \E i \in 1..Len(colors.list) : ~Color(colors.list[i])
                 THEN [res |-> Raises("ValueError", "The color code {color} is in the wrong format"),
                       lookup |-> FALSE]
               ELSE [res |-> ZipStops(breaks, colors.list), lookup |-> FALSE]
        ELSE IF colors.name \notin DOMAIN ramps
          THEN [res |-> Raises("ValueError", "color does not exist in colorBrewer!"), lookup |-> TRUE]
        ELSE IF num_breaks \notin DOMAIN ramps[colors.name]
          THEN [res |-> Raises("ValueError", "Color ramp {} does not have a {} breaks"), lookup |-> TRUE]
        ELSE [res |-> ZipStops(breaks, ramps[colors.name][num_breaks]), lookup |-> TRUE]

(***************************************************************************)
(* GeoJSON converter                                                       *)
(***************************************************************************)

\* df_to_geojson's defaults: lat='lat', lon='lon'
lon == "lon"
lat == "lat"

\* df.columns, in order
Columns == <<"lon", "lat", "name", "pop">>

\* The rows a table is made of: coordinates in thousandths of a degree,
\* none of them halfway between two values of a coarser precision.
Rows ==
    { [c \in Range(Columns) |->
          CASE c = "lon"  -> x
            [] c = "lat"  -> 0 - 478
            [] c = "name" -> "A"
            [] c = "pop"  -> 7] : x \in {1234, 2346} }

Tables == SeqsUpTo(Rows, MaxRows)

\* The properties argument: None, or a list of names without repetition.
PropNames == {"name", "pop", "lon", "zzz"}
None == [some |-> FALSE, val |-> 0]
Some(v) == [some |-> TRUE, val |-> v]
NoList == [some |-> FALSE, val |-> <<>>]
PropLists ==
    {NoList} \cup
    { Some(l) : l \in { s \in SeqsUpTo(PropNames, MaxProps) :
                          \A i, j \in 1..Len(s) : i # j => s[i] # s[j] } }

Precisions == {None} \cup {Some(p) : p \in 0..MaxPrecision}

\* The filename argument: None or a path.
Filenames == {[some |-> FALSE, val |-> ""], [some |-> TRUE, val |-> "out.geojson"]}

\* Truthiness of an optional argument, as in `if precision:`, `if not properties:`
\* and `if filename:`: None, 0, [] and '' are false.
TruthyNumber(arg) == arg.some /\ arg.val # 0
TruthyList(arg) == arg.some /\ arg.val # <<>>
TruthyString(arg) == arg.some /\ arg.val # ""

RECURSIVE Pow10(_)
Pow10(k) == IF k <= 0 THEN 1 ELSE 10 * Pow10(k - 1)

\* Series.round(precision) of a value held in thousandths
Round(x, precision) ==
    LET unit == Pow10(3 - precision)
    IN  unit * RoundHalfEven(x, unit)

\* lines 25-27: df[lon] = df[lon].round(precision); df[lat] = df[lat].round(precision)
RoundColumns(table, precision) ==
    [i \in 1..Len(table) |->
        [c \in DOMAIN table[i] |->
            IF c \in {lon, lat} THEN Round(table[i][c], precision) ELSE table[i][c]]]

\* lines 29-31: the property list the call works with
DefaultProperties(props) ==
    IF ~TruthyList(props)
      THEN SelectSeq(Columns, LAMBDA c : c \notin {lon, lat})
      ELSE props.val

\* lines 33-40: the first offending property decides the error
RECURSIVE ValidateFrom(_, _)
ValidateFrom(props, i) ==
    IF i > Len(props) THEN Returns(<<>>)
    ELSE IF props[i] \notin Range(Columns)
      THEN Raises("ValueError", "properties must be a valid list of column names from dataframe")
    ELSE IF props[i] \in {lon, lat}
      THEN Raises("ValueError", "properties cannot be the geometry longitude or latitude column")
    ELSE ValidateFrom(props, i + 1)

\* Variant: only the existence of the columns is checked.
RECURSIVE ValidateColumnsFrom(_, _)
ValidateColumnsFrom(props, i) ==
    IF i > Len(props) THEN Returns(<<>>)
    ELSE IF props[i] \notin Range(Columns)
      THEN Raises("ValueError", "properties must be a valid list of column names from dataframe")
    ELSE ValidateColumnsFrom(props, i + 1)

ValidateColumnsOnly(props) == ValidateColumnsFrom(props, 1)

Validate(props) == ValidateFrom(props, 1)

\* df[[lon, lat] + properties]: one row restricted to the selected columns
SelectColumns(row, props) == [c \in {lon, lat} \cup Range(props) |-> row[c]]

\* Variant: every field of the row kept among the properties.
row_to_geojson_keeping_coordinates(row, lonkey, latkey) ==
    [type |-> "Feature",
     geometry |-> [type |-> "Point", coordinates |-> <<row[lonkey], row[latkey]>>],
     properties |-> [key \in DOMAIN row |-> row[key]]]

\* row_to_geojson(row, lon, lat)
row_to_geojson(row, lonkey, latkey) ==
    [type |-> "Feature",
     geometry |-> [type |-> "Point", coordinates |-> <<row[lonkey], row[latkey]>>],
     properties |-> [key \in DOMAIN row \ {lonkey, latkey} |-> row[key]]]

\* A chunk written to the destination by one f.write call.
HeaderLine == [text |-> "{\"type\": \"FeatureCollection\", \"features\": [\n", comma |-> FALSE, feat |-> <<>>]
FooterLine == [text |-> "]}", comma |-> FALSE, feat |-> <<>>]
OldLine == [text |-> "old content", comma |-> FALSE, feat |-> <<>>]

\* Variant: every feature written behind a comma.
FeatureLineAlwaysComma(i, feat) == [text |-> "feature", comma |-> TRUE, feat |-> feat]

\* lines 54-57: geojson.dumps(feat) + '\n', behind a comma unless idx == 0
FeatureLine(i, feat) == [text |-> "feature", comma |-> (i # 0), feat |-> feat]

\* The destination before the call: absent, holding unrelated content, or
\* holding an earlier, complete collection.
Absent == [exists |-> FALSE, lines |-> <<>>]
Destinations ==
    {Absent,
     [exists |-> TRUE, lines |-> <<OldLine>>],
     [exists |-> TRUE, lines |-> <<HeaderLine, FooterLine>>]}

(***************************************************************************)
(* The calls of the stop generator: each is one step from "idle".          *)
(***************************************************************************)
BreakValues == {1, 2, 3}
BreakLists == SeqsUpTo(BreakValues, MaxBreaks)
RadiusValues == (0 - 1)..MaxRadius
StopCounts == (0 - 1)..MaxStops
ColorArgs ==
    {ExplicitColors(l) : l \in SeqsUpTo(ColorStrings, MaxBreaks)} \cup
    {NamedColors(n) : n \in RampNames}

geoLocals == <<df, df0, fs, fs0, properties, features, idx>>

After(res) == IF res.kind = "ok" THEN "returned" ELSE "raised"

InitStops ==
    /\ pc = "idle"
    /\ call = NoCall
    /\ result = NoResult
    /\ df = <<>> /\ df0 = <<>>
    /\ fs = Absent /\ fs0 = Absent
    /\ properties = <<>>
    /\ features = <<>>
    /\ idx = 0
    /\ lookup = FALSE

Call_scale_between ==
    /\ pc = "idle"
    /\ \E minval \in RadiusValues, maxval \in RadiusValues, numStops \in StopCounts :
          /\ call' = [op |-> "scale_between", args |-> <<minval, maxval, numStops>>]
          /\ result' = scale_between(minval, maxval, numStops)
    /\ pc' = After(result')
    /\ UNCHANGED <<geoLocals, lookup>>

Call_create_radius_stops ==
    /\ pc = "idle"
    /\ \E breaks \in BreakLists, min_radius \in RadiusValues, max_radius \in RadiusValues :
          /\ call' = [op |-> "create_radius_stops", args |-> <<breaks, min_radius, max_radius>>]
          /\ result' = create_radius_stops(breaks, min_radius, max_radius)
    /\ pc' = After(result')
    /\ UNCHANGED <<geoLocals, lookup>>

Call_create_weight_stops ==
    /\ pc = "idle"
    /\ \E breaks \in BreakLists :
          /\ call' = [op |-> "create_weight_stops", args |-> <<breaks>>]
          /\ result' = create_weight_stops(breaks)
    /\ pc' = After(result')
    /\ UNCHANGED <<geoLocals, lookup>>

Call_create_color_stops ==
    /\ pc = "idle"
    /\ \E breaks \in BreakLists, colors \in ColorArgs, ramps \in Registries :
          LET r == create_color_stops(breaks, colors, ramps)
          IN  /\ call' = [op |-> "create_color_stops", args |-> <<breaks, colors, ramps>>]
              /\ result' = r.res
              /\ lookup' = r.lookup
    /\ pc' = After(result')
    /\ UNCHANGED geoLocals

NextStops ==
    \/ Call_scale_between
    \/ Call_create_radius_stops
    \/ Call_create_weight_stops
    \/ Call_create_color_stops

SpecStops == InitStops /\ [][NextStops]_vars

(***************************************************************************)
(* One call of df_to_geojson on the caller's table, step by step.          *)
(***************************************************************************)
InitGeo ==
    /\ pc = "idle"
    /\ call = NoCall
    /\ result = NoResult
    /\ df \in Tables /\ df0 = df
    /\ fs \in Destinations /\ fs0 = fs
    /\ properties = <<>>
    /\ features = <<>>
    /\ idx = 0
    /\ lookup = FALSE

FileMode == call.op = "df_to_geojson" /\ TruthyString(call.args.filename)

\* lines 22-40: round in place, default the properties, validate them
Call_df_to_geojson ==
    /\ pc = "idle"
    /\ \E props \in PropLists, precision \in Precisions, filename \in Filenames :
          /\ call' = [op |-> "df_to_geojson",
                      args |-> [properties |-> props, precision |-> precision, filename |-> filename]]
          /\ df' = IF TruthyNumber(precision) THEN RoundColumns(df, precision.val) ELSE df
          /\ properties' = DefaultProperties(props)
          /\ LET v == Validate(properties')
             IN  IF v.kind # "ok"
                   THEN pc' = "raised" /\ result' = v
                   ELSE /\ pc' = IF TruthyString(filename) THEN "open" ELSE "collect"
                        /\ result' = NoResult
    /\ UNCHANGED <<df0, fs, fs0, features, idx, lookup>>

\* lines 43-45: open(filename, 'w+') creates or truncates the destination
Truncate ==
    /\ pc = "open"
    /\ fs' = [exists |-> TRUE, lines |-> <<>>]
    /\ pc' = "collect"
    /\ UNCHANGED <<call, result, df, df0, fs0, properties, features, idx, lookup>>

\* lines 48-50 and 66-68: apply(...) appends one feature per row to features
Collect ==
    /\ pc = "collect"
    /\ idx < Len(df)
    /\ features' = Append(features, row_to_geojson(SelectColumns(df[idx + 1], properties), lon, lat))
    /\ idx' = idx + 1
    /\ UNCHANGED <<pc, call, result, df, df0, fs, fs0, properties, lookup>>

\* line 69: return geojson.FeatureCollection(features)
ReturnCollection ==
    /\ pc = "collect"
    /\ idx = Len(df)
    /\ ~FileMode
    /\ result' = Returns([type |-> "FeatureCollection", features |-> features])
    /\ pc' = "returned"
    /\ UNCHANGED <<call, df, df0, fs, fs0, properties, features, idx, lookup>>

\* line 52: the opening of the envelope, appended once every row is collected
WriteHeader ==
    /\ pc = "collect"
    /\ idx = Len(df)
    /\ FileMode
    /\ fs' = [fs EXCEPT !.lines = Append(@, HeaderLine)]
    /\ idx' = 0
    /\ pc' = "write"
    /\ UNCHANGED <<call, result, df, df0, fs0, properties, features, lookup>>

\* lines 53-57: one feature per iteration of the loop over features
WriteFeature ==
    /\ pc = "write"
    /\ idx < Len(features)
    /\ fs' = [fs EXCEPT !.lines = Append(@, FeatureLine(idx, features[idx + 1]))]
    /\ idx' = idx + 1
    /\ UNCHANGED <<pc, call, result, df, df0, fs0, properties, features, lookup>>

\* lines 58-64: close the envelope and return the descriptor
WriteFooter ==
    /\ pc = "write"
    /\ idx = Len(features)
    /\ fs' = [fs EXCEPT !.lines = Append(@, FooterLine)]
    /\ result' = Returns([type |-> "file",
                          filename |-> call.args.filename.val,
                          feature_count |-> Len(features)])
    /\ pc' = "returned"
    /\ UNCHANGED <<call, df, df0, fs0, properties, features, idx, lookup>>

NextGeo ==
    \/ Call_df_to_geojson
    \/ Truncate
    \/ Collect
    \/ ReturnCollection
    \/ WriteHeader
    \/ WriteFeature
    \/ WriteFooter

SpecGeo == InitGeo /\ [][NextGeo]_vars

(***************************************************************************)
(* The error kinds of the specification, as the source raises them.        *)
(***************************************************************************)
DomainError == Raises("ValueError", "")
LengthMismatchError == Raises("ValueError", "custom color list must be of same length as breaks list")
InvalidColorError == Raises("ValueError", "The color code {color} is in the wrong format")
InvalidPropertyError == Raises("ValueError", "properties must be a valid list of column names from dataframe")
ReservedNameError == Raises("ValueError", "properties cannot be the geometry longitude or latitude column")

Done == pc \in {"returned", "raised"}
Called(op) == Done /\ call.op = op
StopGenerators == {"create_radius_stops", "create_weight_stops", "create_color_stops"}

Abs(x) == IF x < 0 THEN 0 - x ELSE x

(***************************************************************************)
(* Properties of the stop generator, checked under SpecStops.              *)
(***************************************************************************)

\* C1: whenever radius_stops, weight_stops or color_stops returns a stop
\* table for a break list B, the table has exactly len(B) stops and the
\* break component of the i-th stop is B[i].
C1_StopsAlignedWithBreaks ==
    (Done /\ call.op \in StopGenerators /\ result.kind = "ok") =>
        LET B == call.args[1]
        IN  /\ Len(result.value) = Len(B)
            /\ \A i \in 1..Len(B) : result.value[i][1] = B[i]

\* C1 witness: radius stops returned for a single break, where the scaled
\* domain holds two values.
C1_Witness ==
    /\ Called("create_radius_stops")
    /\ result.kind = "ok"
    /\ call.args = <<(<<3>>), 1, 2>>
    /\ result.value = <<(<<3, 100>>)>>

\* C2 as stated: scale_between fails with DomainError on every call with
\* max_value < min_value, whatever the stop count, and so does radius_stops
\* for every break list when max_radius < min_radius.
C2_FailsForEveryStopCount ==
    /\ (Called("scale_between") /\ call.args[2] < call.args[1]) => result = DomainError
    /\ (Called("create_radius_stops") /\ call.args[3] < call.args[2]) => result = DomainError

\* C2 amended: scale_between fails with DomainError on every call with
\* max_value < min_value and stop_count >= 2, and returns [min_value,
\* max_value] unchecked when stop_count < 2; radius_stops fails when
\* max_radius < min_radius for every list of at least two breaks.
C2_FailsFromTwoStops ==
    /\ (Called("scale_between") /\ call.args[2] < call.args[1]) =>
          IF call.args[3] >= 2
            THEN result = DomainError
            ELSE result = Returns(<<call.args[1] * Cents, call.args[2] * Cents>>)
    /\ (Called("create_radius_stops") /\ call.args[3] < call.args[2]) =>
          IF Len(call.args[1]) >= 2
            THEN result = DomainError
            ELSE result.kind = "ok"

\* C2 witness: an inverted domain with three stops has raised.
C2_Witness ==
    /\ Called("scale_between")
    /\ call.args = <<2, 0, 3>>
    /\ pc = "raised"

\* v hundredths is min + i*(max-min)/n rounded to 2 decimal places: no
\* further than half a hundredth from the exact value.
IsRoundedPoint(v, minval, maxval, n, i) ==
    2 * Abs(v * n - Cents * (minval * n + (maxval - minval) * i)) <= n

\* C3: for stop_count >= 2 and min_value <= max_value scale_between
\* returns exactly stop_count values, the i-th being
\* min_value + i*(max_value-min_value)/stop_count rounded to 2 decimal
\* places; for stop_count < 2 it returns exactly [min_value, max_value].
C3_EqualIntervals ==
    Called("scale_between") =>
        LET minval == call.args[1]
            maxval == call.args[2]
            n == call.args[3]
        IN  /\ (n >= 2 /\ minval <= maxval) =>
                  /\ result.kind = "ok"
                  /\ Len(result.value) = n
                  /\ \A i \in 0..(n - 1) :
                        IsRoundedPoint(result.value[i + 1], minval, maxval, n, i)
            /\ n < 2 => result = Returns(<<minval * Cents, maxval * Cents>>)

\* C3 witness: [0, 1) in three steps, the last one rounded up.
C3_Witness ==
    /\ Called("scale_between")
    /\ call.args = <<0, 1, 3>>
    /\ result.value = <<0, 33, 67>>

\* C4 as stated: whenever scale_between interpolates, no returned value
\* equals max_value, for every min_value <= max_value.
C4_MaxNeverReturned ==
    (Called("scale_between") /\ call.args[3] >= 2 /\ result.kind = "ok") =>
        \A i \in 1..Len(result.value) : result.value[i] # call.args[2] * Cents

\* C4 amended: whenever scale_between interpolates with
\* min_value < max_value and an interval (max_value-min_value)/stop_count
\* above 0.005, no returned value equals max_value.
C4_MaxNeverReturnedOnProperDomain ==
    (/\ Called("scale_between") /\ call.args[3] >= 2 /\ result.kind = "ok"
     /\ call.args[1] < call.args[2]
     /\ 2 * Cents * (call.args[2] - call.args[1]) > call.args[3]) =>
        \A i \in 1..Len(result.value) : result.value[i] # call.args[2] * Cents

\* C4 witness: five steps over [0, 2) end at 1.6.
C4_Witness ==
    /\ Called("scale_between")
    /\ call.args = <<0, 2, 5>>
    /\ result.value[5] = 160

\* C5: with an explicit color list, color_stops fails with
\* LengthMismatchError when the list is empty or not as long as the breaks
\* (before any color is validated), with InvalidColorError when the lengths
\* match and an entry is no color, and otherwise returns
\* [[breaks[i], colors[i]]] in order; the ramp registry is never read.
C5_ExplicitColorList ==
    (Called("create_color_stops") /\ call.args[2].islist) =>
        LET breaks == call.args[1]
            colors == call.args[2].list
        IN  /\ lookup = FALSE
            /\ IF Len(colors) = 0 \/ Len(colors) # Len(breaks)
                 THEN result = LengthMismatchError
               ELSE IF \E i \in 1..Len(colors) : ~Color(colors[i])
                 THEN result = InvalidColorError
               ELSE result = Returns([i \in 1..Len(breaks) |-> <<breaks[i], colors[i]>>])

\* C5 witness: a list of the wrong length holding an invalid color is
\* rejected for its length.
C5_Witness ==
    /\ Called("create_color_stops")
    /\ call.args[2] = ExplicitColors(<<"notacolor">>)
    /\ Len(call.args[1]) = 2
    /\ result = LengthMismatchError

(***************************************************************************)
(* Properties of the converter, checked under SpecGeo.                     *)
(***************************************************************************)
AllButCoordinates == Range(Columns) \ {lon, lat}

\* The feature the converter owes for row k of the table, given the set of
\* requested columns.
FeatureOf(k, requested) ==
    [type |-> "Feature",
     geometry |-> [type |-> "Point", coordinates |-> <<df[k][lon], df[k][lat]>>],
     properties |-> [key \in requested |-> df[k][key]]]

FeaturesMatch(requested) ==
    /\ \A k \in 1..Len(features) :
          /\ features[k] = FeatureOf(k, requested)
          /\ DOMAIN features[k].properties \cap {lon, lat} = {}
    /\ (pc = "returned" /\ ~FileMode) =>
          /\ result.value.features = features
          /\ Len(features) = Len(df)

\* C6 as stated: a feature's properties are exactly the requested columns
\* when a properties list is supplied, and all columns except lon/lat only
\* when properties is omitted; lon and lat are never among them and the
\* geometry is the point (lon, lat) of the row.
C6_RequestedWheneverSupplied ==
    call.op = "df_to_geojson" =>
        FeaturesMatch(IF call.args.properties.some
                        THEN Range(call.args.properties.val)
                        ELSE AllButCoordinates)

\* C6 amended: a feature's properties are exactly the requested columns
\* when a non-empty properties list is supplied, and all columns except
\* lon/lat when properties is omitted or empty; lon and lat are never among
\* them and the geometry is the point (lon, lat) of the row of the table as
\* the call leaves it.
C6_RequestedWheneverNonEmpty ==
    call.op = "df_to_geojson" =>
        FeaturesMatch(IF call.args.properties.some /\ call.args.properties.val # <<>>
                        THEN Range(call.args.properties.val)
                        ELSE AllButCoordinates)

\* C6 witness: a collection of two features returned for one requested
\* column of a table rounded to one decimal place.
C6_Witness ==
    /\ pc = "returned"
    /\ ~FileMode
    /\ call.args.properties = Some(<<"pop">>)
    /\ call.args.precision = Some(1)
    /\ Len(result.value.features) = 2
    /\ result.value.features[2].geometry.coordinates = <<2300, 0 - 500>>
    /\ DOMAIN result.value.features[2].properties = {"pop"}

Offending(props) ==
    {i \in 1..Len(props) : props[i] \notin Range(Columns) \/ props[i] \in {lon, lat}}

FirstOffending(props) ==
    CHOOSE i \in Offending(props) : \A j \in Offending(props) : i <= j

\* C7: df_to_geojson fails with InvalidPropertyError when a requested
\* property is no column and with ReservedNameError when one is the lon or
\* lat column (the first such property deciding which), and it fails before
\* the destination is touched: the destination is as it was and no feature
\* has been produced.
C7_ValidationBeforeDestination ==
    call.op = "df_to_geojson" =>
        LET props == DefaultProperties(call.args.properties)
        IN  /\ Offending(props) # {} =>
                  /\ pc = "raised"
                  /\ result = IF props[FirstOffending(props)] \in {lon, lat}
                                THEN ReservedNameError
                                ELSE InvalidPropertyError
            /\ pc = "raised" =>
                  /\ Offending(props) # {}
                  /\ fs = fs0
                  /\ features = <<>>

\* C7 witness: a call naming the lon column has failed with a destination
\* given that held content.
C7_Witness ==
    /\ pc = "raised"
    /\ FileMode
    /\ "lon" \in Range(call.args.properties.val)
    /\ result = ReservedNameError
    /\ fs0.exists /\ fs0.lines # <<>>
    /\ fs = fs0

\* Reading the destination back as JSON: the envelope's opening, the
\* features separated by single commas, and the closing; the features in
\* order, or no parse.
RECURSIVE ParseElements(_, _, _)
ParseElements(lines, i, acc) ==
    IF i > Len(lines) THEN [ok |-> FALSE, features |-> <<>>]
    ELSE IF lines[i] = FooterLine
      THEN [ok |-> (i = Len(lines)), features |-> acc]
    ELSE IF lines[i].text = "feature" /\ (lines[i].comma <=> acc # <<>>)
      THEN ParseElements(lines, i + 1, Append(acc, lines[i].feat))
    ELSE [ok |-> FALSE, features |-> <<>>]

ParseJson(file) ==
    IF file.exists /\ Len(file.lines) >= 1 /\ file.lines[1] = HeaderLine
      THEN ParseElements(file.lines, 2, <<>>)
      ELSE [ok |-> FALSE, features |-> <<>>]

\* C8: a successful file-mode call over a table of N rows returns
\* feature_count = N and leaves the destination holding only the envelope
\* with N feature lines in row order, the first without a comma, each later
\* one behind exactly one comma, and nothing before the closing; it parses
\* as JSON to those N features, whatever the destination held before.
C8_FileHoldsExactlyTheCollection ==
    (pc = "returned" /\ FileMode) =>
        LET N == Len(df)
            requested == IF call.args.properties.some /\ call.args.properties.val # <<>>
                           THEN Range(call.args.properties.val)
                           ELSE AllButCoordinates
        IN  /\ result.value.feature_count = N
            /\ result.value.type = "file"
            /\ fs.exists
            /\ Len(fs.lines) = N + 2
            /\ fs.lines[1] = HeaderLine
            /\ fs.lines[N + 2] = FooterLine
            /\ \A k \in 1..N :
                  fs.lines[k + 1] =
                      [text |-> "feature", comma |-> (k > 1), feat |-> FeatureOf(k, requested)]
            /\ ParseJson(fs) = [ok |-> TRUE, features |-> [k \in 1..N |-> FeatureOf(k, requested)]]

\* C8 witness: two rows written over a destination that held content.
C8_Witness ==
    /\ pc = "returned"
    /\ FileMode
    /\ Len(df) = 2
    /\ df[1] # df[2]
    /\ fs0.exists /\ fs0.lines # <<>>
    /\ result.value.feature_count = 2
    /\ Len(fs.lines) = 4

FeatureLinesWritten ==
    Cardinality({i \in 1..Len(fs.lines) : fs.lines[i].text = "feature"})

\* C9: in file mode the converter streams: after truncating the
\* destination it appends each feature as it is built, so at every point of
\* the run at most one feature is built and not yet written.
C9_StreamsFeatureByFeature ==
    (FileMode /\ pc \in {"collect", "write", "returned"}) =>
        Len(features) - FeatureLinesWritten <= 1

\* C10: a call of df_to_geojson without a destination leaves the caller's
\* table unchanged, for every precision and properties, whether it returns
\* a FeatureCollection or fails validation.
C10_TableUnchangedWithoutDestination ==
    (call.op = "df_to_geojson" /\ ~FileMode) => df = df0

====
